---- MODULE Spec2Model ----
(***************************************************************************)
(* A model of scuwl (src/scuwl_petebuffon/scuwl.py): the asyncio crawler   *)
(* Scraper, its driver generate_wordlist and the signal handler shutdown.  *)
(*                                                                         *)
(* Strings of page text are sequences of Unicode code points (naturals),   *)
(* so that str.lower, str.translate, str.split, str.isalpha, str.isascii   *)
(* and sorted() are computed on characters.  URLs and href attributes are  *)
(* sequences of lexical tokens ("http:", "//", a host, "/", a path         *)
(* segment, an extension such as ".jpg", "?", "#"), so that endswith,      *)
(* startswith, the substring test `netloc in href` and urljoin are         *)
(* computed on the text of the link.                                       *)
(***************************************************************************)
EXTENDS Integers, Sequences, FiniteSets, TLC

(***************************************************************************)
(* Bounds of the model.                                                    *)
(***************************************************************************)
MaxDepth == 2
MaxSignals == 2
NumFetchers == 62

(***************************************************************************)
(* Characters and words.                                                   *)
(***************************************************************************)
\* str.isascii() on one character.
IsAsciiChar(c) == c < 128

\* str.isalpha() on one character (code points below 256).
IsAlphaChar(c) ==
    \/ c \in 65..90
    \/ c \in 97..122
    \/ c \in {170, 181, 186}
    \/ c \in 192..214
    \/ c \in 216..246
    \/ c \in 248..255

\* The separators of str.split() with no argument (code points below 256).
IsSpaceChar(c) == c \in {9, 10, 11, 12, 13, 28, 29, 30, 31, 32, 133, 160}

\* string.punctuation, the characters TRANS_TABLE deletes.
IsPunctuation(c) ==
    \/ c \in 33..47
    \/ c \in 58..64
    \/ c \in 91..96
    \/ c \in 123..126

\* str.lower() on one character (code points below 256).
LowerChar(c) ==
    IF c \in 65..90 \/ c \in 192..214 \/ c \in 216..222 THEN c + 32 ELSE c

lower(s) == [i \in 1..Len(s) |-> LowerChar(s[i])]

\* s.translate(TRANS_TABLE): every punctuation character is deleted.
translate(s) == SelectSeq(s, LAMBDA c : ~IsPunctuation(c))

\* s.split(): the maximal runs of non-whitespace characters, in order.
RECURSIVE SplitFrom(_, _, _)
SplitFrom(s, i, cur) ==
    IF i > Len(s)
    THEN IF cur = <<>> THEN <<>> ELSE <<cur>>
    ELSE IF IsSpaceChar(s[i])
         THEN (IF cur = <<>> THEN <<>> ELSE <<cur>>) \o SplitFrom(s, i + 1, <<>>)
         ELSE SplitFrom(s, i + 1, Append(cur, s[i]))

split(s) == SplitFrom(s, 1, <<>>)

isalpha(w) == w # <<>> /\ \A i \in 1..Len(w) : IsAlphaChar(w[i])
isascii(w) == \A i \in 1..Len(w) : IsAsciiChar(w[i])

\* The order of str comparison: lexicographic on code points.
RECURSIVE WordLess(_, _)
WordLess(a, b) ==
    IF a = <<>> THEN b # <<>>
    ELSE IF b = <<>> THEN FALSE
    ELSE IF a[1] # b[1] THEN a[1] < b[1]
    ELSE WordLess(Tail(a), Tail(b))

Range(s) == {s[i] : i \in 1..Len(s)}

(***************************************************************************)
(* URLs and href attributes: sequences of lexical tokens.                  *)
(***************************************************************************)
Schemes == {"http:", "https:", "mailto:"}

\* urllib.parse.uses_relative and uses_netloc, restricted to Schemes.
UsesRelative == {"http:", "https:"}

startswith(h, tok) == Len(h) > 0 /\ h[1] = tok
endswith(h, tok) == Len(h) > 0 /\ h[Len(h)] = tok

\* `needle in h` for a needle that is one token (a host name).
contains(h, needle) == \E i \in 1..Len(h) : h[i] = needle

\* The index of the first token of h at or after i that is in S, else Len(h)+1.
RECURSIVE FirstIn(_, _, _)
FirstIn(h, i, S) ==
    IF i > Len(h) THEN Len(h) + 1
    ELSE IF h[i] \in S THEN i
    ELSE FirstIn(h, i + 1, S)

\* urllib.parse.urlparse(h, default_scheme): scheme, netloc, path, query and
\* fragment.  ParseRest splits what follows the netloc.
ParseRest(scheme, netloc, r, q, f) ==
    [scheme   |-> scheme,
     netloc   |-> netloc,
     path     |-> SubSeq(r, 1, q - 1),
     query    |-> SubSeq(r, q, f - 1),
     fragment |-> SubSeq(r, f, Len(r))]

ParseNetloc(scheme, r) ==
    IF Len(r) > 0 /\ r[1] = "//"
    THEN IF Len(r) > 1 /\ r[2] \notin {"/", "?", "#"}
         THEN ParseRest(scheme, r[2], SubSeq(r, 3, Len(r)),
                        FirstIn(r, 3, {"?", "#"}) - 2, FirstIn(r, 3, {"#"}) - 2)
         ELSE ParseRest(scheme, "", Tail(r),
                        FirstIn(r, 2, {"?", "#"}) - 1, FirstIn(r, 2, {"#"}) - 1)
    ELSE ParseRest(scheme, "", r, FirstIn(r, 1, {"?", "#"}), FirstIn(r, 1, {"#"}))

urlparse(h, default_scheme) ==
    IF Len(h) > 0 /\ h[1] \in Schemes
    THEN ParseNetloc(h[1], Tail(h))
    ELSE ParseNetloc(default_scheme, h)

\* urllib.parse.urlunparse.
urlunparse(scheme, netloc, path, query, fragment) ==
    LET p == IF netloc # "" /\ path # <<>> /\ path[1] # "/"
             THEN <<"/">> \o path ELSE path
    IN  (IF scheme = "" THEN <<>> ELSE <<scheme>>)
        \o (IF netloc = "" THEN <<>> ELSE <<"//", netloc>>)
        \o p \o query \o fragment

\* The directory of a path: everything up to and including its last "/".
RECURSIVE DirOf(_)
DirOf(path) ==
    IF path = <<>> THEN <<>>
    ELSE IF path[Len(path)] = "/" THEN path
    ELSE DirOf(SubSeq(path, 1, Len(path) - 1))

\* urllib.parse.urljoin(base, url), for paths without "." and ".." segments;
\* b and u are base and url parsed.
JoinParsed(url, b, u) ==
    IF u.scheme # b.scheme \/ u.scheme \notin UsesRelative THEN url
    ELSE IF u.netloc # ""
         THEN urlunparse(u.scheme, u.netloc, u.path, u.query, u.fragment)
    ELSE IF u.path = <<>>
         THEN urlunparse(u.scheme, b.netloc, b.path,
                         IF u.query = <<>> THEN b.query ELSE u.query,
                         u.fragment)
    ELSE IF u.path[1] = "/"
         THEN urlunparse(u.scheme, b.netloc, u.path, u.query, u.fragment)
    ELSE urlunparse(u.scheme, b.netloc,
                    (IF DirOf(b.path) = <<>> THEN <<"/">> ELSE DirOf(b.path))
                        \o u.path,
                    u.query, u.fragment)

JoinBase(url, b) == JoinParsed(url, b, urlparse(url, b.scheme))

urljoin(base, url) ==
    IF base = <<>> THEN url
    ELSE IF url = <<>> THEN base
    ELSE JoinBase(url, urlparse(base, ""))

\* blake2b(url.encode("utf8"), digest_size=32).digest(): a 256-bit digest,
\* taken to be collision-free, so a digest is determined by and determines
\* the URL it was computed from.
blake2b(url) == [digest |-> url]

(***************************************************************************)
(* The web the crawl runs against: what the HTTP transport and the HTML    *)
(* parser (BeautifulSoup) hand to the Scraper.  A parsed page is its text  *)
(* nodes (string, name of the parent tag, whether it is a Comment), the    *)
(* text of its tables and its anchors with an href (href, anchor text).    *)
(***************************************************************************)
OriginHost == "o.test"
OtherHost == "x.test"

U(host, path) == <<"http:", "//", host>> \o path

Seed == U(OriginHost, <<"/">>)

Node(text, parent) == [text |-> text, parent |-> parent, comment |-> FALSE]
CommentNode(text, parent) == [text |-> text, parent |-> parent, comment |-> TRUE]
A(href, text) == [href |-> href, text |-> text]

NoPage == [textNodes |-> <<>>, tables |-> <<>>, anchors |-> <<>>]

\* Site "chain": seed -> /a, /c -> /a/b.html -> c.html, and /a links back
\* to the seed.
ChainSite ==
    (Seed :> [textNodes |-> << Node(<<72, 101, 108, 108, 111, 44, 32, 87, 111, 114, 108, 100, 33>>, "p"),  \* "Hello, World!"
                               Node(<<105, 103, 110, 111, 114, 101, 109, 101>>, "script") >>,              \* "ignoreme"
              tables    |-> << <<97, 98, 99, 49, 50, 51, 32, 110, 233>> >>,                                \* "abc123 né"
              anchors   |-> << A(<<"/", "a">>, <<97>>), A(<<"/", "c">>, <<99>>) >>])
    @@ (U(OriginHost, <<"/", "a">>) :>
             [textNodes |-> << Node(<<75, 101, 101, 112, 32, 84, 104, 105, 115>>, "p"),                    \* "Keep This"
                               CommentNode(<<110, 111, 116, 101>>, "p") >>,                                \* "note"
              tables    |-> << <<84, 97, 98, 32, 67, 101, 108, 108>> >>,                                   \* "Tab Cell"
              anchors   |-> << A(<<"/", "a", "/", "b.html">>, <<98>>),
                               A(Seed, <<104, 111, 109, 101>>) >>])
    @@ (U(OriginHost, <<"/", "c">>) :>
             [textNodes |-> << Node(<<97, 98, 99, 49, 50, 51, 32, 120, 183, 121>>, "p") >>,                \* "abc123 x·y"
              tables    |-> <<>>,
              anchors   |-> << A(<<"/", "a", "/", "b.html">>, <<98>>) >>])
    @@ (U(OriginHost, <<"/", "a", "/", "b.html">>) :>
             [textNodes |-> << Node(<<100, 101, 101, 112, 32, 78, 233, 101>>, "p") >>,                     \* "deep Née"
              tables    |-> << <<120, 49, 32, 90, 111, 235>> >>,                                           \* "x1 Zoë"
              anchors   |-> << A(<<"c.html">>, <<99>>) >>])

\* Site "links": the seed carries every shape of href extract_links tells
\* apart; /a opens with a fragment-only anchor.
LinksSite ==
    (Seed :> [textNodes |-> << Node(<<103, 111>>, "p") >>,                                                 \* "go"
              tables    |-> <<>>,
              anchors   |-> << A(U(OtherHost, <<"/", "p">>), <<101, 120, 116>>),
                               A(U(OtherHost, <<"/", "?", "q=", OriginHost>>), <<115, 117, 98>>),
                               A(U(OtherHost, <<"/", "pic", ".jpg">>), <<105, 109, 103>>),
                               A(<<"/", "hidden">>, <<>>),
                               A(<<"/", "private", "/", "x">>, <<112, 114, 105, 118>>),
                               A(<<"#", "top">>, <<116, 111, 112>>),
                               A(<<"//", OriginHost, "/", "a">>, <<97>>),
                               A(<<"/", "a">>, <<97, 103, 97, 105, 110>>) >>])
    @@ (U(OtherHost, <<"/", "p">>) :>
             [textNodes |-> << Node(<<101, 118, 105, 108>>, "p") >>,                                       \* "evil"
              tables    |-> <<>>,
              anchors   |-> <<>>])
    @@ (U(OriginHost, <<"/", "private", "/", "x">>) :>
             [textNodes |-> << Node(<<115, 101, 99, 114, 101, 116>>, "p") >>,                              \* "secret"
              tables    |-> <<>>,
              anchors   |-> <<>>])
    @@ (U(OriginHost, <<"/", "a">>) :>
             [textNodes |-> << Node(<<75, 101, 101, 112, 32, 84, 104, 105, 115>>, "p") >>,                 \* "Keep This"
              tables    |-> <<>>,
              anchors   |-> << A(<<"#", "top">>, <<116, 111, 112>>),
                               A(<<"/", "c">>, <<99>>) >>])

\* Site "frag": the first anchor of the seed is fragment-only.
FragSite ==
    (Seed :> [textNodes |-> << Node(<<103, 111>>, "p") >>,                                                 \* "go"
              tables    |-> <<>>,
              anchors   |-> << A(<<"#", "top">>, <<116, 111, 112>>),
                               A(<<"/", "a">>, <<97>>) >>])

\* Site "rel": a page below the root of the site carries a relative link
\* without a leading slash; the page it names is next to the linking page.
RelSite ==
    (Seed :> [textNodes |-> << Node(<<103, 111>>, "p") >>,                                                 \* "go"
              tables    |-> <<>>,
              anchors   |-> << A(<<"/", "a", "/", "b.html">>, <<98>>) >>])
    @@ (U(OriginHost, <<"/", "a", "/", "b.html">>) :>
             [textNodes |-> << Node(<<100, 101, 101, 112>>, "p") >>,                                       \* "deep"
              tables    |-> <<>>,
              anchors   |-> << A(<<"c.html">>, <<99>>) >>])
    @@ (U(OriginHost, <<"/", "a", "/", "c.html">>) :>
             [textNodes |-> << Node(<<110, 101, 120, 116>>, "p") >>,                                       \* "next"
              tables    |-> <<>>,
              anchors   |-> <<>>])

Sites == {"chain", "links", "frag", "rel"}

Web(s) == IF s = "chain" THEN ChainSite
          ELSE IF s = "links" THEN LinksSite
          ELSE IF s = "frag" THEN FragSite
          ELSE RelSite

HasPage(s, url) == url \in DOMAIN Web(s)

\* BeautifulSoup(text, "lxml") of the body served at url.
Soup(s, url) == Web(s)[url]

\* What a request can come back with: the response of the server (status,
\* Content-Type, whether resp.text() decodes) or an exception of the client.
Responses(s, url) ==
    (IF HasPage(s, url)
     THEN {[exc |-> "", status |-> 200, content_type |-> "text/html", body |-> "html"],
           [exc |-> "", status |-> 200, content_type |-> "", body |-> "html"]}
     ELSE {[exc |-> "", status |-> 404, content_type |-> "text/html", body |-> "html"]})
    \cup {[exc |-> "", status |-> 200, content_type |-> "image/png", body |-> "html"],
          [exc |-> "", status |-> 200, content_type |-> "text/html", body |-> ""],
          [exc |-> "", status |-> 500, content_type |-> "text/html", body |-> "html"],
          [exc |-> "ClientError", status |-> 0, content_type |-> "", body |-> ""],
          [exc |-> "UnicodeDecodeError", status |-> 200, content_type |-> "text/html", body |-> ""],
          [exc |-> "TimeoutError", status |-> 0, content_type |-> "", body |-> ""]}

\* What the robots.txt request can come back with.  Rules are the Disallow
\* path prefixes that apply to the user agent.
RobotsResponses ==
    {[kind |-> "ok", status |-> 200, disallow |-> {}],
     [kind |-> "ok", status |-> 200, disallow |-> {<<"/", "private">>}],
     [kind |-> "HTTPError", status |-> 404, disallow |-> {}],
     [kind |-> "HTTPError", status |-> 403, disallow |-> {}],
     [kind |-> "HTTPError", status |-> 503, disallow |-> {}],
     [kind |-> "URLError", status |-> 0, disallow |-> {}]}

(***************************************************************************)
(* The state of one run of main().                                         *)
(***************************************************************************)
VARIABLES
    site,        \* which web the seed URL lives on
    args,        \* the parsed command line (Scraper.args)
    robotparser, \* Scraper.robotparser
    sem,         \* Scraper.sem: the value of the semaphore
    urls,        \* Scraper.urls: digests of the links yielded so far
    tasks,       \* Scraper.tasks with, for each task, where it stands
    wordlist,    \* Scraper.wordlist: a set, a list once sorted() has run
    root,        \* the call recursive_scrape(args.url, 0) the driver awaits
    main,        \* where generate_wordlist stands
    main_cancel, \* cancel() was called on the main task
    gathered,    \* how many tasks of Scraper.tasks gather() was given
    stdout,      \* the lines printed
    outfile,     \* the file args.outfile names
    error,       \* the exception that left generate_wordlist, if any
    handlers,    \* the handlers of the loop for SIGINT and SIGTERM
    signals,     \* signals delivered so far
    shutdowns,   \* runs of shutdown() so far
    midcrawl,    \* a signal was delivered while a crawl task was unfinished
    killed,      \* the process was ended by the default action of a signal
    fetchers     \* callers of Scraper.fetch, counted by where they stand

vars == <<site, args, robotparser, sem, urls, tasks, wordlist, root, main,
          main_cancel, gathered, stdout, outfile, error, handlers, signals,
          shutdowns, midcrawl, killed, fetchers>>

crawlVars == <<site, args, robotparser, urls, tasks, wordlist, root, main,
               main_cancel, gathered, stdout, outfile, error, handlers,
               signals, shutdowns, midcrawl, killed>>

\* asyncio.Semaphore(60)
SemaphoreValue == 60

Terminal == {"done", "error", "cancelled"}
MainFinished == {"done", "cancelled", "crashed"}

(***************************************************************************)
(* Politeness gate: urllib.robotparser.RobotFileParser as build_robotparser*)
(* uses it.                                                                *)
(***************************************************************************)
NewRobotFileParser ==
    [allow_all |-> FALSE, disallow_all |-> FALSE, last_checked |-> 0,
     disallow |-> {}]

\* RobotFileParser.read() when urlopen does not raise URLError: an HTTPError
\* 401/403 disallows all, another 4xx allows all, any other HTTPError leaves
\* the parser as it was; a body is parsed, which also stamps last_checked.
read(rp, resp) ==
    IF resp.kind = "HTTPError"
    THEN IF resp.status \in {401, 403} THEN [rp EXCEPT !.disallow_all = TRUE]
         ELSE IF resp.status >= 400 /\ resp.status < 500
              THEN [rp EXCEPT !.allow_all = TRUE]
         ELSE rp
    ELSE [rp EXCEPT !.last_checked = 1, !.disallow = resp.disallow]

\* build_robotparser(netloc): the parser, or the URLError that read() lets
\* through when the robots resource cannot be reached.
build_robotparser(resp) ==
    IF resp.kind = "URLError"
    THEN [raised |-> "URLError", parser |-> NewRobotFileParser]
    ELSE [raised |-> "", parser |-> read(NewRobotFileParser, resp)]

IsPrefix(p, q) == Len(p) <= Len(q) /\ SubSeq(q, 1, Len(p)) = p

\* Entry.allowance on the parsed url: no Disallow prefix matches it.
PathOf(u) ==
    IF u.path \o u.query \o u.fragment = <<>>
    THEN <<"/">>
    ELSE u.path \o u.query \o u.fragment

allowance(disallow, u) == \A d \in disallow : ~IsPrefix(d, PathOf(u))

\* RobotFileParser.can_fetch(useragent, url): rules are matched against the
\* path, query and fragment of url, "/" when that is empty.
can_fetch(rp, url) ==
    IF rp.disallow_all THEN FALSE
    ELSE IF rp.allow_all THEN TRUE
    ELSE IF rp.last_checked = 0 THEN FALSE
    ELSE allowance(rp.disallow, urlparse(url, ""))

(***************************************************************************)
(* Scraper.                                                                *)
(***************************************************************************)
\* self.url = urlparse(args.url)
self_url == urlparse(args.url, "")

\* self.url.scheme + "://" + self.url.netloc
OriginBase == <<self_url.scheme, "//", self_url.netloc>>

\* A semaphore that never makes a caller wait.
locked_never(value) == FALSE

\* Semaphore.acquire() takes a permit without waiting when the value is
\* positive; otherwise the caller waits.
locked(value) == value = 0

\* fetch without its except clause: the exception of the client leaves it.
fetch_no_except(resp) ==
    IF resp.exc # ""
    THEN resp.exc
    ELSE IF resp.status = 200
         THEN IF resp.content_type = "text/html" \/ resp.content_type = ""
              THEN resp.body
              ELSE "None"
         ELSE ""

\* Scraper.fetch from the response on: the text, "" or None.
fetch(resp) ==
    IF resp.exc \in {"ClientError", "UnicodeDecodeError", "AssertionError", "TimeoutError"}
    THEN ""
    ELSE IF resp.status = 200
         THEN IF resp.content_type = "text/html" \/ resp.content_type = ""
              THEN resp.body
              ELSE "None"
         ELSE ""

\* `not text`
Falsy(text) == text \in {"", "None"}

\* Scraper.is_visible_tag
is_visible_tag(element) ==
    /\ element.parent \notin {"style", "script", "head", "title", "meta", "[document]"}
    /\ ~element.comment

\* The test of Scraper.filter_words on one word.
keep_word(word) ==
    /\ Len(word) >= args.min_length
    /\ Len(word) <= args.max_length
    /\ IF args.alpha /\ isalpha(word) THEN TRUE ELSE isascii(word)

\* Scraper.filter_words: the words it yields, as the set update() makes of
\* them.
filter_words(tags) ==
    {word \in UNION {Range(split(tags[i])) : i \in 1..Len(tags)} : keep_word(word)}

Prepare(text) == IF args.punctuation THEN translate(lower(text)) ELSE lower(text)

\* Scraper.extract_words: what it adds to self.wordlist.
extract_words(soup) ==
    LET visible_tags == SelectSeq(soup.textNodes, is_visible_tag)
    IN  filter_words([i \in 1..Len(visible_tags) |-> Prepare(visible_tags[i].text)])

\* Scraper.extract_tables: what it adds to self.wordlist.
extract_tables(soup) ==
    filter_words([i \in 1..Len(soup.tables) |-> Prepare(soup.tables[i])])

\* The membership test without the insertion.
dedup_no_insert(url, seen) ==
    [urls |-> seen, allow |-> blake2b(url) \notin seen]

\* The membership test and insertion that close the loop body of
\* extract_links: the digests after the link, and whether it is yielded.
dedup(url, seen) ==
    IF blake2b(url) \notin seen
    THEN [urls |-> seen \cup {blake2b(url)}, allow |-> TRUE]
    ELSE [urls |-> seen, allow |-> FALSE]

\* A cutoff one level late.
at_depth_late(depth) == depth > args.depth

\* The depth cutoff of recursive_scrape.
at_depth(depth) == depth = args.depth

\* The url the body of the loop of extract_links binds for one href; bound
\* is FALSE while the local `url` was never assigned, and a fragment-only
\* href that does not name the origin host leaves `url` as it was.
bind_url(href, cur) ==
    IF contains(href, self_url.netloc)
    THEN IF startswith(href, "//")
         THEN [bound |-> TRUE, url |-> urljoin(OriginBase, href)]
         ELSE [bound |-> TRUE, url |-> href]
    ELSE IF ~startswith(href, "#")
         THEN [bound |-> TRUE, url |-> urljoin(OriginBase, href)]
         ELSE cur

\* Scraper.extract_links, consumed to the end by the loop of
\* recursive_scrape: the links yielded in order, self.urls afterwards, and
\* the exception that ended it, if any.  st carries the local `url`.
\* Gate is the rest of the loop body once `url` is read: b is the binding
\* of `url`, and reading it unbound raises.
RECURSIVE LinksFrom(_, _, _)

Yield(links, i, st, b, d) ==
    LinksFrom(links, i + 1,
              [st EXCEPT !.cur = b,
                         !.urls = d.urls,
                         !.out = IF d.allow THEN Append(@, b.url) ELSE @])

\* The loop body without the robots check.
Gate_ungated(links, i, st, b) ==
    IF ~b.bound
    THEN [st EXCEPT !.raised = "UnboundLocalError"]
    ELSE Yield(links, i, st, b, dedup(b.url, st.urls))

Gate(links, i, st, b) ==
    IF ~b.bound
    THEN [st EXCEPT !.raised = "UnboundLocalError"]
    ELSE IF ~can_fetch(robotparser, b.url)
         THEN LinksFrom(links, i + 1, [st EXCEPT !.cur = b])
         ELSE Yield(links, i, st, b, dedup(b.url, st.urls))

LinksFrom(links, i, st) ==
    IF i > Len(links) THEN st
    ELSE IF links[i].text = <<>> THEN LinksFrom(links, i + 1, st)
    ELSE IF endswith(links[i].href, ".svg") \/ endswith(links[i].href, ".jpg")
         THEN LinksFrom(links, i + 1, st)
    ELSE Gate(links, i, st, bind_url(links[i].href, st.cur))

extract_links(soup, seen) ==
    LinksFrom(soup.anchors, 1,
              [cur |-> [bound |-> FALSE, url |-> <<>>], urls |-> seen,
               out |-> <<>>, raised |-> ""])

\* Scraper.recursive_scrape from the return of fetch on: the new
\* self.wordlist and self.urls, the links a task is created for, and the
\* exception that ended the call, if any.  soup is parsed from text.
Discovered(wl, r) ==
    [wordlist |-> wl, urls |-> r.urls, links |-> r.out, raised |-> r.raised]

Extracted(depth, soup, wl, seen) ==
    IF at_depth(depth)
    THEN [wordlist |-> wl, urls |-> seen, links |-> <<>>, raised |-> ""]
    ELSE Discovered(wl, extract_links(soup, seen))

recursive_scrape(depth, text, soup, wl, seen) ==
    IF Falsy(text)
    THEN [wordlist |-> wl, urls |-> seen, links |-> <<>>, raised |-> ""]
    ELSE IF wl.type # "set"
    THEN \* list has no update()
         [wordlist |-> wl, urls |-> seen, links |-> <<>>, raised |-> "AttributeError"]
    ELSE Extracted(depth, soup,
                   [wl EXCEPT !.items = @ \cup (IF args.tables
                                                THEN extract_tables(soup)
                                                ELSE extract_words(soup))],
                   seen)

\* asyncio.create_task(self.recursive_scrape(link, depth + 1)) for each link,
\* as appended to self.tasks.  parent is 0 for the root call.
create_tasks(links, depth, parent) ==
    [i \in 1..Len(links) |->
        [url |-> links[i], depth |-> depth + 1, st |-> "created",
         cancel |-> FALSE, res |-> "none", raised |-> "", parent |-> parent]]

\* sorted(wordlist)
RECURSIVE sorted(_)
sorted(S) ==
    IF S = {} THEN <<>>
    ELSE LET least == CHOOSE w \in S : \A v \in S \ {w} : WordLess(w, v)
         IN  <<least>> \o sorted(S \ {least})

(***************************************************************************)
(* generate_wordlist, the tasks of the loop and the signal handlers.       *)
(***************************************************************************)
\* parse_arguments(): the command lines of the model.
Configs ==
    [url : {Seed}, depth : 0..MaxDepth, alpha : BOOLEAN, tables : BOOLEAN,
     punctuation : BOOLEAN, min_length : {3}, max_length : {5, 20},
     outfile : BOOLEAN]

\* Scraper.write_to_file: the file opened with "w" holds one line per word
\* of self.wordlist.
write_to_file(words) == [written |-> TRUE, lines |-> words]

\* The lines of generate_wordlist after gather(): sort, then file or stdout.
Emitted(words) ==
    [wordlist |-> [type |-> "list", items |-> words],
     stdout   |-> IF args.outfile THEN stdout ELSE stdout \o words,
     outfile  |-> IF args.outfile THEN write_to_file(words) ELSE outfile]

\* The wordlist written without sorted(): in an order that is not ascending.
emit_unsorted(wl) ==
    Emitted([i \in 1..Cardinality(wl.items) |->
                sorted(wl.items)[Cardinality(wl.items) + 1 - i]])

emit(wl) == Emitted(sorted(wl.items))

\* The driver writes the wordlist and is done.
Finish(e) ==
    /\ main' = "done"
    /\ wordlist' = e.wordlist
    /\ stdout' = e.stdout
    /\ outfile' = e.outfile

\* asyncio.gather(*scraper.tasks) over the first n tasks: it has a result
\* when all of them are done, and raises as soon as one of them has raised.
GatherRaised(n) == \E i \in 1..n : tasks[i].st = "error"
GatherReturned(n) == \A i \in 1..n : tasks[i].st = "done"
GatherSettled(n) == GatherRaised(n) \/ \A i \in 1..n : tasks[i].st \in Terminal

Unfinished(t) == t.st \notin Terminal

\* The loop still runs callbacks: generate_wordlist is suspended, or
\* asyncio.run is waiting for the tasks it cancelled.
LoopRunning ==
    /\ ~killed
    /\ \/ main \in {"scrape", "gather"}
       \/ main \in MainFinished /\ \E i \in 1..Len(tasks) : Unfinished(tasks[i])

Init ==
    /\ site \in Sites
    /\ args \in Configs
    /\ robotparser = NewRobotFileParser
    /\ sem = SemaphoreValue
    /\ urls = {}
    /\ tasks = <<>>
    /\ wordlist = [type |-> "set", items |-> {}]
    /\ root = [url |-> args.url, depth |-> 0, st |-> "created", res |-> "none"]
    /\ main = "start"
    /\ main_cancel = FALSE
    /\ gathered = 0
    /\ stdout = <<>>
    /\ outfile = [written |-> FALSE, lines |-> <<>>]
    /\ error = ""
    /\ handlers = [SIGINT |-> "shutdown", SIGTERM |-> "shutdown"]
    /\ signals = 0
    /\ shutdowns = 0
    /\ midcrawl = FALSE
    /\ killed = FALSE
    /\ fetchers = [waiting |-> 0, inflight |-> 0, done |-> 0]

\* generate_wordlist up to its first suspension: Scraper(args, session)
\* builds the robot parser; recursive_scrape(args.url, 0) enters fetch, takes
\* a permit and issues the request for the seed.
Constructed(built) ==
    IF built.raised # ""
    THEN /\ main' = "crashed"
         /\ error' = built.raised
         /\ UNCHANGED <<robotparser, root, sem>>
    ELSE /\ robotparser' = built.parser
         /\ ~locked(sem)
         /\ sem' = sem - 1
         /\ root' = [root EXCEPT !.st = "fetching"]
         /\ main' = "scrape"
         /\ error' = error

Start ==
    /\ main = "start"
    /\ \E resp \in RobotsResponses : Constructed(build_robotparser(resp))
    /\ UNCHANGED <<site, args, urls, tasks, wordlist, main_cancel, gathered,
                   stdout, outfile, handlers, signals, shutdowns, midcrawl,
                   killed,
                   fetchers>>

\* The request for the seed returns: the rest of recursive_scrape(url, 0)
\* runs, then generate_wordlist goes on to gather(*scraper.tasks), which has
\* its result at once when there is no task.
RootScraped(text, r) ==
    /\ sem' = sem + 1
    /\ urls' = r.urls
    /\ tasks' = tasks \o create_tasks(r.links, root.depth, 0)
    /\ IF r.raised # ""
       THEN /\ root' = [root EXCEPT !.st = "error", !.res = "text"]
            /\ main' = "crashed"
            /\ error' = r.raised
            /\ wordlist' = r.wordlist
            /\ UNCHANGED <<gathered, stdout, outfile>>
       ELSE /\ root' = [root EXCEPT !.st = "done",
                                    !.res = IF Falsy(text) THEN "empty" ELSE "text"]
            /\ error' = error
            /\ gathered' = Len(tasks')
            /\ IF Len(tasks') = 0
               THEN Finish(emit(r.wordlist))
               ELSE /\ main' = "gather"
                    /\ wordlist' = r.wordlist
                    /\ UNCHANGED <<stdout, outfile>>

SoupOf(url) == IF HasPage(site, url) THEN Soup(site, url) ELSE NoPage

RootFetched(text) ==
    RootScraped(text, recursive_scrape(root.depth, text, SoupOf(root.url), wordlist, urls))

RootReturn ==
    /\ LoopRunning
    /\ main = "scrape"
    /\ ~main_cancel
    /\ root.st = "fetching"
    /\ \E resp \in Responses(site, root.url) : RootFetched(fetch(resp))
    /\ UNCHANGED <<site, args, robotparser, main_cancel, handlers, signals,
                   shutdowns, midcrawl, killed,
                   fetchers>>

\* The first step of a task: fetch takes a permit and issues the request.
TaskStart(i) ==
    /\ LoopRunning
    /\ tasks[i].st = "created"
    /\ ~tasks[i].cancel
    /\ ~locked(sem)
    /\ sem' = sem - 1
    /\ tasks' = [tasks EXCEPT ![i].st = "fetching"]
    /\ UNCHANGED <<site, args, robotparser, urls, wordlist, root, main,
                   main_cancel, gathered, stdout, outfile, error, handlers,
                   signals, shutdowns, midcrawl, killed,
                   fetchers>>

\* The request of a task returns: the permit is released and the rest of
\* recursive_scrape runs to its end.
TaskScraped(i, text, r) ==
    /\ sem' = sem + 1
    /\ urls' = r.urls
    /\ wordlist' = r.wordlist
    /\ tasks' = [tasks EXCEPT
                   ![i].st = IF r.raised # "" THEN "error" ELSE "done",
                   ![i].raised = r.raised,
                   ![i].res = IF Falsy(text) THEN "empty" ELSE "text"]
                \o create_tasks(r.links, tasks[i].depth, i)

TaskFetched(i, text) ==
    TaskScraped(i, text,
                recursive_scrape(tasks[i].depth, text, SoupOf(tasks[i].url),
                                 wordlist, urls))

TaskReturn(i) ==
    /\ LoopRunning
    /\ tasks[i].st = "fetching"
    /\ ~tasks[i].cancel
    /\ \E resp \in Responses(site, tasks[i].url) : TaskFetched(i, fetch(resp))
    /\ UNCHANGED <<site, args, robotparser, root, main, main_cancel, gathered,
                   stdout, outfile, error, handlers, signals, shutdowns,
                   midcrawl, killed,
                   fetchers>>

\* gather() wakes generate_wordlist: with the exception of a task, which
\* generate_wordlist does not catch, or with its result, and then the
\* wordlist is sorted and written.
GatherReturn ==
    /\ LoopRunning
    /\ main = "gather"
    /\ ~main_cancel
    /\ GatherRaised(gathered) \/ GatherReturned(gathered)
    /\ IF GatherRaised(gathered)
       THEN /\ main' = "crashed"
            /\ error' \in {tasks[i].raised : i \in {j \in 1..gathered : tasks[j].st = "error"}}
            /\ UNCHANGED <<wordlist, stdout, outfile>>
       ELSE /\ Finish(emit(wordlist))
            /\ error' = error
    /\ UNCHANGED <<site, args, robotparser, sem, urls, tasks, root,
                   main_cancel, gathered, handlers, signals, shutdowns,
                   midcrawl, killed,
                   fetchers>>

\* cancel() on the tasks with a request in flight only.
shutdown_tasks_inflight(ts) ==
    [i \in 1..Len(ts) |-> IF ts[i].st = "fetching" THEN [ts[i] EXCEPT !.cancel = TRUE]
                                                   ELSE ts[i]]

\* shutdown(): cancel() on every unfinished task of the loop, the main task
\* among them; SIGTERM goes back to its default, SIGINT does nothing.
shutdown_tasks(ts) ==
    [i \in 1..Len(ts) |-> IF Unfinished(ts[i]) THEN [ts[i] EXCEPT !.cancel = TRUE]
                                                ELSE ts[i]]

shutdown_handlers == [SIGINT |-> "noop", SIGTERM |-> "default"]

\* The loop handles a signal.
Signal(sig) ==
    /\ LoopRunning
    /\ signals < MaxSignals
    /\ signals' = signals + 1
    /\ midcrawl' = (midcrawl \/ main = "scrape"
                             \/ \E i \in 1..Len(tasks) : Unfinished(tasks[i]))
    /\ IF handlers[sig] = "shutdown"
       THEN /\ tasks' = shutdown_tasks(tasks)
            /\ main_cancel' = (main_cancel \/ main \in {"scrape", "gather"})
            /\ handlers' = shutdown_handlers
            /\ shutdowns' = shutdowns + 1
            /\ killed' = killed
       ELSE IF handlers[sig] = "noop"
       THEN UNCHANGED <<tasks, main_cancel, handlers, shutdowns, killed>>
       ELSE \* the default action of SIGTERM ends the process
            /\ killed' = TRUE
            /\ UNCHANGED <<tasks, main_cancel, handlers, shutdowns>>
    /\ UNCHANGED <<site, args, robotparser, sem, urls, wordlist, root, main,
                   gathered, stdout, outfile, error, fetchers>>

\* CancelledError reaches the main task inside fetch of the seed: the permit
\* is released on the way out and generate_wordlist prints a blank line.
RootCancelled ==
    /\ LoopRunning
    /\ main = "scrape"
    /\ main_cancel
    /\ root' = [root EXCEPT !.st = "cancelled"]
    /\ sem' = sem + 1
    /\ main' = "cancelled"
    /\ stdout' = Append(stdout, <<>>)
    /\ UNCHANGED <<site, args, robotparser, urls, tasks, wordlist,
                   main_cancel, gathered, outfile, error, handlers, signals,
                   shutdowns, midcrawl, killed,
                   fetchers>>

\* A cancelled fetch that keeps its permit.
TaskCancelled_leak(i) ==
    /\ LoopRunning
    /\ tasks[i].cancel
    /\ Unfinished(tasks[i])
    /\ sem' = sem
    /\ tasks' = [tasks EXCEPT ![i].st = "cancelled",
                              ![i].res = IF tasks[i].st = "fetching"
                                         THEN "abandoned" ELSE @]
    /\ UNCHANGED <<site, args, robotparser, urls, wordlist, root, main,
                   main_cancel, gathered, stdout, outfile, error, handlers,
                   signals, shutdowns, midcrawl, killed,
                   fetchers>>

\* CancelledError reaches a task: before its first step, or inside fetch,
\* where the permit is released on the way out.
TaskCancelled(i) ==
    /\ LoopRunning
    /\ tasks[i].cancel
    /\ Unfinished(tasks[i])
    /\ sem' = IF tasks[i].st = "fetching" THEN sem + 1 ELSE sem
    /\ tasks' = [tasks EXCEPT ![i].st = "cancelled",
                              ![i].res = IF tasks[i].st = "fetching"
                                         THEN "abandoned" ELSE @]
    /\ UNCHANGED <<site, args, robotparser, urls, wordlist, root, main,
                   main_cancel, gathered, stdout, outfile, error, handlers,
                   signals, shutdowns, midcrawl, killed,
                   fetchers>>

\* CancelledError reaches the main task inside gather(), once the tasks
\* gather() cancelled are finished: generate_wordlist prints a blank line.
GatherCancelled ==
    /\ LoopRunning
    /\ main = "gather"
    /\ main_cancel
    /\ GatherSettled(gathered)
    /\ main' = "cancelled"
    /\ stdout' = Append(stdout, <<>>)
    /\ UNCHANGED <<site, args, robotparser, sem, urls, tasks, wordlist, root,
                   main_cancel, gathered, outfile, error, handlers, signals,
                   shutdowns, midcrawl, killed,
                   fetchers>>

\* asyncio.run after generate_wordlist is over: it cancels the tasks that
\* are left and runs the loop until they are finished.
CancelAllTasks ==
    /\ LoopRunning
    /\ main \in MainFinished
    /\ \E i \in 1..Len(tasks) : Unfinished(tasks[i]) /\ ~tasks[i].cancel
    /\ tasks' = shutdown_tasks(tasks)
    /\ UNCHANGED <<site, args, robotparser, sem, urls, wordlist, root, main,
                   main_cancel, gathered, stdout, outfile, error, handlers,
                   signals, shutdowns, midcrawl, killed,
                   fetchers>>

Next ==
    \/ Start
    \/ RootReturn
    \/ \E i \in 1..Len(tasks) : TaskStart(i)
    \/ \E i \in 1..Len(tasks) : TaskReturn(i)
    \/ GatherReturn
    \/ \E sig \in {"SIGINT", "SIGTERM"} : Signal(sig)
    \/ RootCancelled
    \/ \E i \in 1..Len(tasks) : TaskCancelled(i)
    \/ GatherCancelled
    \/ CancelAllTasks

Spec == Init /\ [][Next]_vars

\* A run in which no signal is delivered, every request issued comes back
\* and the loop keeps running whatever is ready.
LiveNext ==
    \/ Start
    \/ RootReturn
    \/ \E i \in 1..Len(tasks) : TaskStart(i)
    \/ \E i \in 1..Len(tasks) : TaskReturn(i)
    \/ GatherReturn
    \/ \E i \in 1..Len(tasks) : TaskCancelled(i)
    \/ CancelAllTasks

\* The command lines of the liveness runs: every site and depth, words
\* taken from the text of the page, written to stdout.
LiveInit ==
    /\ Init
    /\ ~args.tables
    /\ ~args.alpha
    /\ args.punctuation
    /\ args.max_length = 20
    /\ ~args.outfile

\* Something is ready to run: the guard of an action of LiveNext holds.
Ready ==
    \/ main = "start"
    \/ /\ LoopRunning
       /\ \/ main = "scrape" /\ ~main_cancel /\ root.st = "fetching"
          \/ main = "gather" /\ ~main_cancel
                /\ (GatherRaised(gathered) \/ GatherReturned(gathered))
          \/ main \in MainFinished
                /\ \E i \in 1..Len(tasks) : Unfinished(tasks[i]) /\ ~tasks[i].cancel
          \/ \E i \in 1..Len(tasks) :
                \/ tasks[i].st = "created" /\ ~tasks[i].cancel /\ ~locked(sem)
                \/ tasks[i].st = "fetching" /\ ~tasks[i].cancel
                \/ tasks[i].cancel /\ Unfinished(tasks[i])

\* Weak fairness of LiveNext, with ENABLED <<LiveNext>>_vars written out as
\* Ready: every step of LiveNext moves the driver or a task forward for
\* good, so LiveNext is not taken forever and WF_vars(LiveNext) says that
\* the loop does not stop while something is ready.
LoopFairness == []<>(~Ready)

LiveSpec == LiveInit /\ [][LiveNext]_vars /\ LoopFairness

(***************************************************************************)
(* The permit pool on its own: NumFetchers callers of Scraper.fetch, more  *)
(* than there are permits, counted by where they stand (waiting for a      *)
(* permit, request in flight, returned).                                   *)
(***************************************************************************)
PoolInit ==
    /\ site = "chain"
    /\ args = [url |-> Seed, depth |-> 0, alpha |-> FALSE, tables |-> FALSE,
               punctuation |-> TRUE, min_length |-> 3, max_length |-> 20,
               outfile |-> FALSE]
    /\ robotparser = NewRobotFileParser
    /\ sem = SemaphoreValue
    /\ urls = {}
    /\ tasks = <<>>
    /\ wordlist = [type |-> "set", items |-> {}]
    /\ root = [url |-> args.url, depth |-> 0, st |-> "created", res |-> "none"]
    /\ main = "start"
    /\ main_cancel = FALSE
    /\ gathered = 0
    /\ stdout = <<>>
    /\ outfile = [written |-> FALSE, lines |-> <<>>]
    /\ error = ""
    /\ handlers = [SIGINT |-> "shutdown", SIGTERM |-> "shutdown"]
    /\ signals = 0
    /\ shutdowns = 0
    /\ midcrawl = FALSE
    /\ killed = FALSE
    /\ fetchers = [waiting |-> NumFetchers, inflight |-> 0, done |-> 0]

\* `async with self.sem` is entered: a waiting caller takes a permit and
\* issues its request.
FetchAcquire ==
    /\ fetchers.waiting > 0
    /\ ~locked(sem)
    /\ sem' = sem - 1
    /\ fetchers' = [fetchers EXCEPT !.waiting = @ - 1, !.inflight = @ + 1]
    /\ UNCHANGED crawlVars

\* `async with self.sem` is left, whatever the request came back with.
FetchRelease ==
    /\ fetchers.inflight > 0
    /\ \E resp \in Responses(site, Seed) : fetch(resp) \in {"html", "", "None"}
    /\ sem' = sem + 1
    /\ fetchers' = [fetchers EXCEPT !.inflight = @ - 1, !.done = @ + 1]
    /\ UNCHANGED crawlVars

PoolNext == FetchAcquire \/ FetchRelease

PoolSpec == PoolInit /\ [][PoolNext]_vars

(***************************************************************************)
(* Properties.                                                             *)
(***************************************************************************)
Words(wl) == IF wl.type = "set" THEN wl.items ELSE Range(wl.items)

\* What the run wrote as its wordlist.
Output == IF args.outfile THEN outfile.lines ELSE stdout

Host(url) == urlparse(url, "").netloc

TaskIds == 1..Len(tasks)

ParentDepth(i) == IF tasks[i].parent = 0 THEN root.depth ELSE tasks[tasks[i].parent].depth

\* C1: in a run without an interrupt the driver has sorted and emitted the
\* wordlist only when every task of the crawl, at any depth, is done.
C1_EmitAfterAllDone ==
    (main = "done" /\ signals = 0) => \A i \in TaskIds : tasks[i].st = "done"

\* C2: the root has depth 0, a child has the depth of its parent plus one,
\* no task is deeper than max_depth, and a call that returns from its fetch
\* at depth max_depth spawns no task and leaves self.urls as it was.
C2_DepthState ==
    /\ root.depth = 0
    /\ \A i \in TaskIds : /\ tasks[i].depth = ParentDepth(i) + 1
                          /\ tasks[i].depth <= args.depth

C2_LeafStep ==
    /\ (root.st = "fetching" /\ root'.st # "fetching" /\ root.depth = args.depth)
          => (urls' = urls /\ Len(tasks') = Len(tasks))
    /\ \A i \in TaskIds :
         (tasks[i].st = "fetching" /\ tasks'[i].st # "fetching"
                                   /\ tasks[i].depth = args.depth)
            => (urls' = urls /\ Len(tasks') = Len(tasks))

C2_DepthInvariant == []C2_DepthState /\ [][C2_LeafStep]_vars

\* A page with anchors was fetched and parsed at depth max_depth.
C2_Witness ==
    \E i \in TaskIds : /\ tasks[i].depth = args.depth
                       /\ tasks[i].st = "done"
                       /\ tasks[i].res = "text"
                       /\ SoupOf(tasks[i].url).anchors # <<>>

\* C3: no two tasks of self.tasks have the same URL, the URL of every task
\* is recorded in self.urls, and a URL offered twice in a row to the
\* deduplication is allowed the first time only if it is new and never the
\* second time.
KnownUrls == DOMAIN Web(site) \cup {tasks[i].url : i \in TaskIds}

C3_AtMostOnce ==
    /\ \A i, j \in TaskIds : tasks[i].url = tasks[j].url => i = j
    /\ \A i \in TaskIds : blake2b(tasks[i].url) \in urls
    /\ \A u \in KnownUrls :
         /\ dedup(u, urls).allow = (blake2b(u) \notin urls)
         /\ ~dedup(u, dedup(u, urls).urls).allow

\* Two pages that both link to one URL have been through link discovery,
\* and that URL has a task.
C3_Witness ==
    \E i, j, k \in TaskIds :
        /\ i # j
        /\ tasks[k].parent = i
        /\ tasks[j].st = "done" /\ tasks[j].res = "text" /\ tasks[j].depth < args.depth
        /\ \E n \in 1..Len(SoupOf(tasks[j].url).anchors) :
             urljoin(OriginBase, SoupOf(tasks[j].url).anchors[n].href) = tasks[k].url

\* C4: every task created by link discovery has a URL on the host of the
\* seed.
C4_SameOriginOnly == \A i \in TaskIds : Host(tasks[i].url) = self_url.netloc

\* C5: no more requests are in flight than the semaphore has permits, and
\* the value of the semaphore is never negative.
C5_Ceiling ==
    /\ fetchers.inflight <= SemaphoreValue
    /\ sem >= 0

\* Every permit is taken and callers are still waiting for one.
C5_Witness == fetchers.inflight = SemaphoreValue /\ fetchers.waiting > 0

\* C6: with --alpha every word of self.wordlist, and so of the output, is
\* alphabetic.
C6_AlphaOnly == args.alpha => \A w \in Words(wordlist) : isalpha(w)

\* C7: every word of self.wordlist has a length between min_length and
\* max_length, and the wordlist written to stdout or to the file is in
\* strictly ascending order, so without a duplicate.
C7_LengthSortedUnique ==
    /\ \A w \in Words(wordlist) : Len(w) >= args.min_length /\ Len(w) <= args.max_length
    /\ main = "done" =>
         /\ Range(Output) = Words(wordlist)
         /\ \A i \in 1..Len(Output) : Len(Output[i]) >= args.min_length
                                       /\ Len(Output[i]) <= args.max_length
         /\ \A i, j \in 1..Len(Output) : i < j => WordLess(Output[i], Output[j])

\* Words of several pages were written.
C7_Witness == main = "done" /\ Len(Output) >= 4 /\ Len(tasks) > 0

BlankLines == Cardinality({i \in 1..Len(stdout) : stdout[i] = <<>>})

TokensWritten == outfile.written \/ \E i \in 1..Len(stdout) : stdout[i] # <<>>

\* C8: when one signal was delivered, while the root call or a task was
\* unfinished, the run ends with no token written, one blank line printed
\* and no exception out of generate_wordlist.
C8_CleanCancel ==
    (midcrawl /\ signals = 1 /\ ~LoopRunning) =>
        (~TokensWritten /\ BlankLines = 1 /\ error = "")

\* C9: an exception raised while a page is processed does not leave
\* generate_wordlist: the run does not end with the exception of a page.
C9_Isolation == error \notin {"UnboundLocalError", "AttributeError"}

\* C10: when robots.txt is answered with 404 or cannot be reached, the
\* Scraper is constructed and can_fetch is true for every URL.
C10_FailOpen ==
    /\ error # "URLError"
    /\ \A resp \in RobotsResponses :
         ((resp.status = 404 \/ resp.kind = "URLError")
              /\ main # "start"
              /\ robotparser = build_robotparser(resp).parser)
            => \A u \in KnownUrls : can_fetch(robotparser, u)

\* C11: once the robot parser is built, every URL recorded in self.urls and
\* every URL a task was created for is one can_fetch answered true for; a
\* link can_fetch refuses is neither recorded nor given a task.
C11_GatedBeforeRecorded ==
    main # "start" =>
        /\ \A i \in TaskIds : can_fetch(robotparser, tasks[i].url)
        /\ \A d \in urls : can_fetch(robotparser, d.digest)

\* The seed page went through link discovery, it carries a link the robots
\* rules refuse, and its other links have tasks.
C11_Witness ==
    /\ root.res = "text"
    /\ args.depth >= 1
    /\ Len(tasks) > 0
    /\ \E n \in 1..Len(SoupOf(root.url).anchors) :
         /\ SoupOf(root.url).anchors[n].text # <<>>
         /\ ~startswith(SoupOf(root.url).anchors[n].href, "#")
         /\ ~can_fetch(robotparser, urljoin(OriginBase, SoupOf(root.url).anchors[n].href))
         /\ blake2b(urljoin(OriginBase, SoupOf(root.url).anchors[n].href)) \notin urls

\* The responses of a failed fetch: a status other than 200, a Content-Type
\* that is present and not text/html, or an exception of the client.
FailedResponses(url) ==
    {resp \in Responses(site, url) :
        \/ resp.exc # ""
        \/ resp.status # 200
        \/ resp.content_type \notin {"", "text/html"}}

\* C12: fetch answers a failed request with "" or None, never with an
\* exception; the call of recursive_scrape that gets it returns at once: the
\* task goes from fetching to done and self.wordlist, self.urls and
\* self.tasks stay as they were; a finished task never runs again.
C12_EmptyResult ==
    \A u \in KnownUrls : \A resp \in FailedResponses(u) : Falsy(fetch(resp))

C12_FailedStep ==
    /\ \A i \in TaskIds :
         (tasks[i].st = "fetching" /\ tasks'[i].res = "empty")
            => /\ tasks' = [tasks EXCEPT ![i].st = "done", ![i].res = "empty"]
               /\ wordlist' = wordlist
               /\ urls' = urls
    /\ (root.st = "fetching" /\ root'.res = "empty")
            => /\ root'.st = "done"
               /\ tasks' = tasks
               /\ urls' = urls
               /\ Words(wordlist') = Words(wordlist)
    /\ \A i \in TaskIds : tasks[i].st \in Terminal => tasks'[i].st = tasks[i].st

C12_FailedFetch == []C12_EmptyResult /\ [][C12_FailedStep]_vars

\* The request of a task for a page that exists failed, after words of
\* another page were collected.
C12_Witness ==
    \E i \in TaskIds : /\ tasks[i].st = "done"
                       /\ tasks[i].res = "empty"
                       /\ HasPage(site, tasks[i].url)
                       /\ Words(wordlist) # {}
                       /\ tasks[i].depth < args.depth

\* An anchor whose href starts with "#" and does not name the origin host.
IsFragmentOnly(a) == startswith(a.href, "#") /\ ~contains(a.href, self_url.netloc)

IsNotFragmentOnly(a) == ~IsFragmentOnly(a)

\* The page without its fragment-only anchors.
WithoutFragments(soup) == [soup EXCEPT !.anchors = SelectSeq(@, IsNotFragmentOnly)]

SameDiscovery(r, q) == r.raised = "" /\ r.out = q.out /\ r.urls = q.urls

\* C13: a fragment-only anchor is skipped wherever it stands in the page:
\* link discovery on a page raises nothing and yields and records what it
\* yields and records on the page without its fragment-only anchors, and no
\* call of recursive_scrape ends with the UnboundLocalError of such an
\* anchor.
C13_FragmentSkipped ==
    main # "start" =>
        /\ root.st # "error"
        /\ \A i \in TaskIds : tasks[i].raised # "UnboundLocalError"
        /\ \A p \in DOMAIN Web(site) :
             SameDiscovery(extract_links(Soup(site, p), urls),
                           extract_links(WithoutFragments(Soup(site, p)), urls))

\* The URL of the page a task was discovered on.
PageOf(k) == IF tasks[k].parent = 0 THEN root.url ELSE tasks[tasks[k].parent].url

\* C14: the URL of every task is the resolution of the href of an anchor of
\* the page it was discovered on against the URL of that page.
C14_RelativeToPage ==
    \A k \in TaskIds :
        \E n \in 1..Len(SoupOf(PageOf(k)).anchors) :
            tasks[k].url = urljoin(PageOf(k), SoupOf(PageOf(k)).anchors[n].href)

\* C15: once shutdown() has run, every unfinished task of the crawl, and the
\* driver while it is suspended, is marked for cancellation, and from then
\* on a task only stays as it is or ends cancelled: no permit is taken, no
\* request is issued, no page is parsed, no task is created, and
\* self.wordlist and self.urls stay as they are.
C15_AllMarked ==
    shutdowns >= 1 =>
        /\ \A i \in TaskIds : Unfinished(tasks[i]) => tasks[i].cancel
        /\ main \in {"scrape", "gather"} => main_cancel

C15_NoFurtherStage ==
    shutdowns >= 1 =>
        /\ Len(tasks') = Len(tasks)
        /\ \A i \in TaskIds : tasks'[i].st \in {tasks[i].st, "cancelled"}
        /\ root'.st \in {root.st, "cancelled"}
        /\ sem' >= sem
        /\ wordlist' = wordlist
        /\ urls' = urls

C15_CrawlWideCancel == []C15_AllMarked /\ [][C15_NoFurtherStage]_vars

\* One signal ended a crawl in which a page was done, a request was in
\* flight and a task had not started: both tasks ended cancelled and the
\* driver left through its except clause.
C15_Witness ==
    /\ shutdowns = 1
    /\ main = "cancelled"
    /\ \E i, j, k \in TaskIds :
         /\ tasks[i].st = "done" /\ tasks[i].res = "text"
         /\ tasks[j].st = "cancelled" /\ tasks[j].res = "abandoned"
         /\ tasks[k].st = "cancelled" /\ tasks[k].res = "none"

\* The calls of fetch that hold a permit: inside `async with self.sem`.
InFetch ==
    Cardinality({i \in TaskIds : tasks[i].st = "fetching"})
        + (IF root.st = "fetching" THEN 1 ELSE 0)
        + fetchers.inflight

\* C16: the permits in use are as many as the calls inside a fetch, and
\* when the root call and every task are done, failed or cancelled the
\* semaphore is back at its initial value.
C16_NoPermitLeak ==
    /\ SemaphoreValue - sem = InFetch
    /\ (root.st \in Terminal /\ \A i \in TaskIds : tasks[i].st \in Terminal)
          => sem = SemaphoreValue

\* The crawl is over after fetches that returned a page, that returned
\* nothing and that were cancelled with the request in flight.
C16_Witness ==
    /\ root.st \in Terminal
    /\ \A i \in TaskIds : tasks[i].st \in Terminal
    /\ \E i, j, k \in TaskIds : /\ tasks[i].res = "text"
                                 /\ tasks[j].res = "empty"
                                 /\ tasks[k].res = "abandoned"
    /\ sem = SemaphoreValue

\* C17: shutdown() runs at most once in a run, and a signal that arrives
\* after it has run does not end the process before generate_wordlist has
\* left through its except clause.
C17_NotReentrant ==
    /\ shutdowns <= 1
    /\ ~killed

\* C18: in a run without a signal, in which every request comes back and
\* the loop keeps running, the run is over (nothing is ready to run) only
\* when the driver has written the wordlist and every task of the crawl is
\* done: until then a step can be taken, whatever the number of tasks.
C18_Termination ==
    Ready \/ (main = "done" /\ \A i \in TaskIds : tasks[i].st = "done")

\* A request was issued for the task.
Fetched(t) == t.st \in {"fetching", "done", "error"} \/ t.res = "abandoned"

\* C19: the seed is requested once, by the root call: no task issues a
\* request for the URL of the seed.
C19_SeedFetchedOnce ==
    \A i \in TaskIds : tasks[i].url = args.url => ~Fetched(tasks[i])

====
